---- MODULE Spec2Model ----
(***************************************************************************)
(* Model of the ChatGPT export archiver: the export-to-record conversion   *)
(* (importer.LoadAndConvert), the JSON-file backed Store, the importer     *)
(* command and the PATCH/POST/DELETE handlers of the API server.           *)
(*                                                                         *)
(* Strings are sequences of one-character strings (all ASCII, so Go's byte *)
(* length equals the character count).  Instants are whole seconds since   *)
(* the Unix epoch; Go's zero time.Time (January 1, year 1) is ZeroTime.    *)
(***************************************************************************)
EXTENDS Integers, Sequences, FiniteSets, TLC

VARIABLES
    clock,          \* what time.Now() returns
    exportFile,     \* the export file the importer is given
    runs,           \* results of the LoadAndConvert calls made so far
    storeFile,      \* the file at Store.path
    tmpFile,        \* the file at Store.path + ".tmp"
    pc,             \* the running process: idle, the importer at "open" or
                    \* "upsert", the API server "serving", or a call of
                    \* traversalPath at "loop", "reverse" or "returned"
    conversations,  \* Store.conversations of the running process
    items,          \* importer main: the records LoadAndConvert returned
    idx,            \* importer main: index of the next item to upsert
    patches,        \* PATCH requests in flight (between Get and Upsert)
    last,           \* the last Store write: its argument, outcome, state before
    prevRun,        \* the previous completed importer run
    thisRun,        \* bookkeeping of the current importer run
    served,         \* number of requests the API server has accepted
    path,           \* traversalPath: the nodes collected so far
    seen,           \* traversalPath: the node ids visited so far
    nodeID          \* traversalPath: the id of the node to visit next

vars == <<clock, exportFile, runs, storeFile, tmpFile, pc, conversations,
          items, idx, patches, last, prevRun, thisRun, served,
          path, seen, nodeID>>

----------------------------------------------------------------------------
(* Bounds *)

NowBase == 5000
MaxTicks == 1
MaxRuns == 2
MaxRequests == 3
LongLen == 300

None == <<>>
Some(v) == <<v>>

----------------------------------------------------------------------------
(* strings *)

Repeat(c, n) == [i \in 1..n |-> c]

IsSpace(c) == c \in {" ", "\n", "\t", "\r"}

RECURSIVE TrimLeft(_)
TrimLeft(s) ==
    IF s = <<>> THEN <<>>
    ELSE IF IsSpace(Head(s)) THEN TrimLeft(Tail(s)) ELSE s

RECURSIVE TrimRight(_)
TrimRight(s) ==
    IF s = <<>> THEN <<>>
    ELSE IF IsSpace(s[Len(s)]) THEN TrimRight(SubSeq(s, 1, Len(s) - 1)) ELSE s

TrimSpace(s) == TrimRight(TrimLeft(s))

HasSuffix(s, suffix) ==
    /\ Len(s) >= Len(suffix)
    /\ SubSeq(s, Len(s) - Len(suffix) + 1, Len(s)) = suffix

Upper == <<"A","B","C","D","E","F","G","H","I","J","K","L","M",
           "N","O","P","Q","R","S","T","U","V","W","X","Y","Z">>
Lower == <<"a","b","c","d","e","f","g","h","i","j","k","l","m",
           "n","o","p","q","r","s","t","u","v","w","x","y","z">>

LowerChar(c) ==
    IF \E i \in 1..26 : Upper[i] = c
    THEN Lower[CHOOSE i \in 1..26 : Upper[i] = c]
    ELSE c

ToLower(s) == [i \in 1..Len(s) |-> LowerChar(s[i])]

ReplaceSpaces(s) == [i \in 1..Len(s) |-> IF s[i] = " " THEN "-" ELSE s[i]]

Ellipsis == <<".", ".", ".">>

SummaryLimit == 240
TitleLimit == 80

\* lines 512-515 of truncate
withEllipsis(trimmed) ==
    IF HasSuffix(trimmed, Ellipsis) THEN trimmed ELSE trimmed \o Ellipsis

truncate(text, limit) ==
    IF Len(text) <= limit THEN text
    ELSE withEllipsis(TrimSpace(SubSeq(text, 1, limit)))

\* the first of the trimmed values that is not empty, else ""
firstOfTrimmed(a, b) == IF a # <<>> THEN a ELSE b

firstNonEmpty(a, b) == firstOfTrimmed(TrimSpace(a), TrimSpace(b))

----------------------------------------------------------------------------
(* time *)

\* Go's zero time.Time, 0001-01-01T00:00:00Z, lies 62135596800 seconds before
\* the epoch; it is represented by an instant before every instant of the model
ZeroTime == -2000000000

IsZero(t) == t = ZeroTime

Digits == <<"0","1","2","3","4","5","6","7","8","9">>

Pad2(n) == <<Digits[((n \div 10) % 10) + 1], Digits[(n % 10) + 1]>>
Pad4(n) == Pad2(n \div 100) \o Pad2(n % 100)

\* the civil date of an instant t >= 0, in UTC, through the day of the
\* 400-year era (doe), the year of the era (yoe), the day of the year counted
\* from March 1 (doy) and the month counted from March (mp)
CivilOfMonth(t, era, yoe, doy, mp) ==
    [year |-> yoe + era * 400 + (IF mp < 10 THEN 0 ELSE 1),
     month |-> IF mp < 10 THEN mp + 3 ELSE mp - 9,
     day |-> doy - (153 * mp + 2) \div 5 + 1,
     hour |-> (t % 86400) \div 3600,
     minute |-> (t % 3600) \div 60,
     second |-> t % 60]

CivilOfYear(t, era, doe, yoe) ==
    CivilOfMonth(t, era, yoe, doe - (365 * yoe + yoe \div 4 - yoe \div 100),
                 (5 * (doe - (365 * yoe + yoe \div 4 - yoe \div 100)) + 2) \div 153)

CivilOfEra(t, era, doe) ==
    CivilOfYear(t, era, doe,
                (doe - doe \div 1460 + doe \div 36524 - doe \div 146096) \div 365)

CivilOfDay(t, z) == CivilOfEra(t, z \div 146097, z - (z \div 146097) * 146097)

Civil(t) == CivilOfDay(t, (t \div 86400) + 719468)

DateLayout(c) ==
    Pad4(c.year) \o <<"-">> \o Pad2(c.month) \o <<"-">> \o Pad2(c.day)

StampLayout(c) ==
    Pad4(c.year) \o Pad2(c.month) \o Pad2(c.day)
    \o Pad2(c.hour) \o Pad2(c.minute) \o Pad2(c.second)

\* t.Format("2006-01-02")
FormatDate(t) == DateLayout(Civil(t))

\* t.Format("20060102150405")
FormatStamp(t) == StampLayout(Civil(t))

\* value is None (a nil *float64) or Some(whole seconds); the result is [ok, t]
toTime(value) ==
    IF value = None THEN [ok |-> FALSE, t |-> ZeroTime]
    ELSE IF IsZero(value[1]) THEN [ok |-> FALSE, t |-> ZeroTime]
    ELSE [ok |-> TRUE, t |-> value[1]]

timestampOrZero(value) ==
    IF toTime(value).ok THEN toTime(value).t ELSE ZeroTime

StrConversation == <<"c","o","n","v","e","r","s","a","t","i","o","n">>

baseOrDefault(base) == IF base = <<>> THEN StrConversation ELSE base

newDeterministicID(seed, t) ==
    baseOrDefault(ReplaceSpaces(ToLower(seed))) \o <<"-">> \o FormatStamp(t)

Ascii == <<"\t", "\n", "\r", " ", "-", ".">> \o Digits \o Upper \o Lower

Ord(c) == CHOOSE i \in 1..Len(Ascii) : Ascii[i] = c

\* Go's < on strings: bytewise lexicographic
RECURSIVE StrLess(_, _)
StrLess(a, b) ==
    IF b = <<>> THEN FALSE
    ELSE IF a = <<>> THEN TRUE
    ELSE IF Head(a) = Head(b) THEN StrLess(Tail(a), Tail(b))
    ELSE Ord(Head(a)) < Ord(Head(b))

----------------------------------------------------------------------------
(* importer: export -> records *)

StrText == <<"t","e","x","t">>
StrMultimodal == <<"m","u","l","t","i","m","o","d","a","l","_","t","e","x","t">>
StrUser == <<"u","s","e","r">>
StrAssistant == <<"a","s","s","i","s","t","a","n","t">>
StrNoSummary == <<"N","o"," ","s","u","m","m","a","r","y"," ",
                  "a","v","a","i","l","a","b","l","e">>
StrUntitled == <<"U","n","t","i","t","l","e","d"," ",
                 "c","o","n","v","e","r","s","a","t","i","o","n">>

\* a part is [str |-> TRUE, text |-> s] (a JSON string) or [str |-> FALSE]
\* json.Unmarshal of a part into a string, trimmed; "" when it is no string
cleanedPart(part) == IF part.str THEN TrimSpace(part.text) ELSE <<>>

writePart(builder, cleaned) ==
    IF cleaned = <<>> THEN builder
    ELSE (IF Len(builder) > 0 THEN builder \o <<"\n", "\n">> ELSE builder)
         \o cleaned

RECURSIVE collectParts(_, _)
collectParts(parts, builder) ==
    IF parts = <<>> THEN builder
    ELSE collectParts(Tail(parts), writePart(builder, cleanedPart(Head(parts))))

collectStringParts(parts) == TrimSpace(collectParts(parts, <<>>))

extractText(content) ==
    IF content.ContentType = StrText THEN collectStringParts(content.Parts)
    ELSE IF content.ContentType = StrMultimodal
         THEN collectStringParts(content.Parts)
    ELSE <<>>

\* (*exportMessage).GetCreateTime; message is None or Some(exportMessage)
GetCreateTime(message) ==
    IF message = None THEN None ELSE message[1].CreateTime

\* the comparison handed to sort.Slice, on the two results of toTime
nodeLessAt(ni, nj, ti, tj) ==
    IF ti.ok /\ tj.ok
    THEN IF ti.t = tj.t THEN StrLess(ni.ID, nj.ID) ELSE ti.t < tj.t
    ELSE IF ti.ok THEN TRUE
    ELSE IF tj.ok THEN FALSE
    ELSE StrLess(ni.ID, nj.ID)

nodeLess(ni, nj) ==
    nodeLessAt(ni, nj, toTime(GetCreateTime(ni.Message)),
               toTime(GetCreateTime(nj.Message)))

\* the node that sorts before every other node of S
FirstNode(S) == CHOOSE x \in S : \A y \in S \ {x} : nodeLess(x, y)

RECURSIVE SortNodes(_)
SortFrom(S, m) == <<m>> \o SortNodes(S \ {m})

SortNodes(S) == IF S = {} THEN <<>> ELSE SortFrom(S, FirstNode(S))

timelineByTimestamps(raw) ==
    SortNodes({raw.Mapping[k] : k \in DOMAIN raw.Mapping})

Reverse(s) == [i \in 1..Len(s) |-> s[Len(s) + 1 - i]]

\* the loop of traversalPath as a function: the path so far (p), the ids seen
\* so far (s) and the id to visit next (id)
RECURSIVE walk(_, _, _, _)
walk(mapping, p, s, id) ==
    IF id = <<>> THEN p
    ELSE IF id \notin DOMAIN mapping THEN p
    ELSE IF id \in s THEN Append(p, mapping[id])
    ELSE walk(mapping, Append(p, mapping[id]), s \cup {id}, mapping[id].Parent)

\* lines 444-448 of traversalPath
pathOrTimeline(raw, p) ==
    IF Len(p) = 0 THEN timelineByTimestamps(raw) ELSE p

traversalPath(raw) ==
    IF raw.CurrentNode = <<>> THEN timelineByTimestamps(raw)
    ELSE pathOrTimeline(raw, Reverse(walk(raw.Mapping, <<>>, {}, raw.CurrentNode)))

foldInit ==
    [earliest |-> ZeroTime, latest |-> ZeroTime,
     hasEarliest |-> FALSE, hasLatest |-> FALSE,
     firstUser |-> <<>>, firstAssistant |-> <<>>, messages |-> <<>>]

\* lines 310-319: the earliest and latest message timestamp; tt is toTime's result
trackTimes(acc, tt) ==
    IF tt.ok
    THEN [acc EXCEPT
            !.earliest = IF ~acc.hasEarliest \/ tt.t < acc.earliest
                         THEN tt.t ELSE acc.earliest,
            !.hasEarliest = TRUE,
            !.latest = IF ~acc.hasLatest \/ tt.t > acc.latest
                       THEN tt.t ELSE acc.latest,
            !.hasLatest = TRUE]
    ELSE acc

\* the switch without its cases: the message of a node with text is stored
\* whatever its role
appendMessageAnyRole(acc, message, text, role) ==
    IF text = <<>> THEN acc
    ELSE [acc EXCEPT !.messages = Append(@, message)]

\* lines 321-348: the message of a node with text, by role
appendMessage(acc, message, text, role) ==
    IF text = <<>> THEN acc
    ELSE IF role = StrUser
    THEN [acc EXCEPT !.firstUser = IF @ = <<>> THEN text ELSE @,
                     !.messages = Append(@, message)]
    ELSE IF role = StrAssistant
    THEN [acc EXCEPT !.firstAssistant = IF @ = <<>> THEN text ELSE @,
                     !.messages = Append(@, message)]
    ELSE acc

foldMessage(acc, id, msg, text, role) ==
    appendMessage(trackTimes(acc, toTime(msg.CreateTime)),
                  [ID |-> id, Author |-> role, Content |-> text,
                   CreatedAt |-> timestampOrZero(msg.CreateTime)],
                  text, role)

\* one iteration of the loop over the timeline
foldNode(acc, node) ==
    IF node.Message = None THEN acc
    ELSE foldMessage(acc, node.ID, node.Message[1],
                     extractText(node.Message[1].Content),
                     ToLower(node.Message[1].Author.Role))

RECURSIVE foldTimeline(_, _)
foldTimeline(timeline, acc) ==
    IF timeline = <<>> THEN acc
    ELSE foldTimeline(Tail(timeline), foldNode(acc, Head(timeline)))

\* lines 351-363: a message timestamp, else the conversation's, else none
timeOrFallback(has, t, fallback) ==
    IF has THEN [ok |-> TRUE, t |-> t] ELSE fallback

\* lines 365-369
summaryOf(summary) == IF summary = <<>> THEN StrNoSummary ELSE summary

\* lines 371-377
titleOf(title, fromSummary) ==
    IF title # <<>> THEN title
    ELSE IF fromSummary = <<>> THEN StrUntitled ELSE fromSummary

\* lines 396-402
idOf(conversationID, id, title, createdAt) ==
    IF conversationID # <<>> THEN conversationID
    ELSE IF id # <<>> THEN id
    ELSE newDeterministicID(title, createdAt)

\* lines 404-414
newConversation(id, title, summary, dateStarted, dateEnded, messages, createdAt, updatedAt) ==
    [ID |-> id, Title |-> title, Summary |-> summary,
     DateStarted |-> dateStarted, DateEnded |-> dateEnded,
     SourceID |-> id, Messages |-> messages,
     CreatedAt |-> createdAt, UpdatedAt |-> updatedAt]

\* lines 379-414, with createdAt settled
convertDated(raw, acc, earliest, latest, summary, title, createdAt) ==
    Some(newConversation(
        idOf(TrimSpace(raw.ConversationID), TrimSpace(raw.ID), title, createdAt),
        title, summary,
        IF earliest.ok THEN FormatDate(earliest.t) ELSE <<>>,
        IF latest.ok THEN FormatDate(latest.t) ELSE <<>>,
        acc.messages, createdAt,
        IF latest.ok THEN latest.t ELSE createdAt))

\* lines 371-394, with the summary settled
convertSummarized(raw, now, acc, earliest, latest, summary) ==
    convertDated(raw, acc, earliest, latest, summary,
                 titleOf(TrimSpace(raw.Title), truncate(summary, TitleLimit)),
                 IF earliest.ok THEN earliest.t ELSE now)

\* lines 351-369, after the loop over the timeline
convertFolded(raw, now, acc) ==
    convertSummarized(raw, now, acc,
        timeOrFallback(acc.hasEarliest, acc.earliest, toTime(raw.CreateTime)),
        timeOrFallback(acc.hasLatest, acc.latest, toTime(raw.UpdateTime)),
        summaryOf(truncate(firstNonEmpty(acc.firstUser, acc.firstAssistant),
                           SummaryLimit)))

convertTimeline(raw, now, timeline) ==
    IF Len(timeline) = 0 THEN None
    ELSE convertFolded(raw, now, foldTimeline(timeline, foldInit))

\* the result is None (nil) or Some(models.Conversation); now is time.Now()
convertConversation(raw, now) ==
    IF Cardinality(DOMAIN raw.Mapping) = 0 THEN None
    ELSE convertTimeline(raw, now, traversalPath(raw))

\* readExport dropping the decoder's error and keeping what was decoded
readExportLenient(file) ==
    IF file.kind = "missing" THEN [err |-> TRUE, payload |-> <<>>]
    ELSE [err |-> FALSE, payload |-> file.decoded]

\* the export file is [kind |-> "missing"], [kind |-> "malformed",
\* decoded |-> ...] (a JSON type or syntax error) or [kind |-> "json",
\* decoded |-> the array]; the result is [err, payload]
readExport(file) ==
    IF file.kind = "json" THEN [err |-> FALSE, payload |-> file.decoded]
    ELSE [err |-> TRUE, payload |-> <<>>]

\* the loop of LoadAndConvert putting each record in front of the earlier ones
RECURSIVE convertAllNewestFirst(_, _)
convertAllNewestFirst(payload, now) ==
    IF payload = <<>> THEN <<>>
    ELSE convertAllNewestFirst(Tail(payload), now)
         \o convertConversation(Head(payload), now)

RECURSIVE convertAll(_, _)
convertAll(payload, now) ==
    IF payload = <<>> THEN <<>>
    ELSE convertConversation(Head(payload), now) \o convertAll(Tail(payload), now)

\* lines 222-233 of LoadAndConvert; r is readExport's result
convertExport(r, now) ==
    IF r.err THEN [err |-> TRUE, conversations |-> <<>>]
    ELSE [err |-> FALSE, conversations |-> convertAll(r.payload, now)]

\* the result is [err, conversations]
LoadAndConvert(file, now) == convertExport(readExport(file), now)


----------------------------------------------------------------------------
(* storage: the Store and its file *)

NoFile == [exists |-> FALSE, complete |-> FALSE, payload |-> <<>>]
\* a file that was created or truncated and not written to its end
Truncated == [exists |-> TRUE, complete |-> FALSE, payload |-> <<>>]
Written(payload) == [exists |-> TRUE, complete |-> TRUE, payload |-> payload]

NoConversations == <<>>

Range(f) == {f[x] : x \in DOMAIN f}

Put(m, k, v) == [x \in DOMAIN m \cup {k} |-> IF x = k THEN v ELSE m[x]]

Remove(m, k) == [x \in DOMAIN m \ {k} |-> m[x]]

\* the comparison handed to sort.Slice by List and saveLocked
itemLess(a, b) ==
    IF a.UpdatedAt = b.UpdatedAt THEN StrLess(a.Title, b.Title)
    ELSE a.UpdatedAt > b.UpdatedAt

\* every order sort.Slice can leave the items in (it is not stable, and the
\* map is iterated in random order, so items that compare equal come in any order)
RECURSIVE Sorted(_)
Sorted(S) ==
    IF S = {} THEN {<<>>}
    ELSE UNION { { <<m>> \o rest : rest \in Sorted(S \ {m}) } :
                 m \in {x \in S : \A y \in S : ~itemLess(y, x)} }

List(convs) == Sorted({[c EXCEPT !.Messages = <<>>] : c \in Range(convs)})

ZeroConversation ==
    [ID |-> <<>>, Title |-> <<>>, Summary |-> <<>>, DateStarted |-> <<>>,
     DateEnded |-> <<>>, SourceID |-> <<>>, Messages |-> <<>>,
     CreatedAt |-> ZeroTime, UpdatedAt |-> ZeroTime]

\* the result is [notFound, item]
Get(convs, id) ==
    IF id \in DOMAIN convs THEN [notFound |-> FALSE, item |-> convs[id]]
    ELSE [notFound |-> TRUE, item |-> ZeroConversation]

\* lines 87-91 of Upsert
storeStamped(convs, conversation, now) ==
    Put(convs, conversation.ID,
        IF IsZero(conversation.UpdatedAt)
        THEN [conversation EXCEPT !.UpdatedAt = now] ELSE conversation)

\* Upsert without the branch that keeps the existing creation instant
UpsertNoPreserve(convs, conversation, now) ==
    storeStamped(convs,
        IF IsZero(conversation.CreatedAt)
        THEN [conversation EXCEPT !.CreatedAt = now] ELSE conversation,
        now)

\* the map Upsert leaves in s.conversations
Upsert(convs, conversation, now) ==
    storeStamped(convs,
        IF conversation.ID \in DOMAIN convs
        THEN IF IsZero(conversation.CreatedAt)
             THEN [conversation EXCEPT
                      !.CreatedAt = convs[conversation.ID].CreatedAt]
             ELSE conversation
        ELSE IF IsZero(conversation.CreatedAt)
             THEN [conversation EXCEPT !.CreatedAt = now]
             ELSE conversation,
        now)

\* the map UpdateTitle leaves in s.conversations (id is present)
UpdateTitleIn(convs, id, title, now) ==
    Put(convs, id, [convs[id] EXCEPT !.Title = title, !.UpdatedAt = now])

RECURSIVE loadItems(_, _)
loadItems(payload, convs) ==
    IF payload = <<>> THEN convs
    ELSE loadItems(Tail(payload), Put(convs, Head(payload).ID, Head(payload)))

\* the result is [err, conversations]
load(file) ==
    IF ~file.exists THEN [err |-> FALSE, conversations |-> NoConversations]
    ELSE IF ~file.complete THEN [err |-> TRUE, conversations |-> NoConversations]
    ELSE [err |-> FALSE, conversations |-> loadItems(file.payload, NoConversations)]

\* what can happen to one saveLocked call: it returns nil, one of its four
\* system calls fails, or the process dies after one of them
SaveErrors == {"errOpen", "errEncode", "errClose", "errRename"}
SaveCrashes == {"crashOpen", "crashEncode", "crashClose", "crashRename"}
SaveOutcomes == {"ok"} \cup SaveErrors \cup SaveCrashes

\* the result of a save that leaves disk[1] at the store path and disk[2] at
\* the temporary path
saved(outcome, disk) ==
    [err |-> outcome \in SaveErrors, crashed |-> outcome \in SaveCrashes,
     storeFile |-> disk[1], tmpFile |-> disk[2]]

\* saveLocked writing to the store path itself, without temporary file
saveLockedInPlace(payload, file, tmp, outcome) ==
    saved(outcome,
          IF outcome = "errOpen" THEN <<file, tmp>>
          ELSE IF outcome \in {"crashOpen", "errEncode", "crashEncode"}
               THEN <<Truncated, tmp>>
          ELSE <<Written(payload), tmp>>)

\* payload is the sorted slice; the result is [err, crashed, storeFile, tmpFile]
saveLocked(payload, file, tmp, outcome) ==
    saved(outcome,
          IF outcome = "errOpen" THEN <<file, tmp>>
          ELSE IF outcome \in {"crashOpen", "errEncode", "crashEncode"}
               THEN <<file, Truncated>>
          ELSE IF outcome \in {"errClose", "crashClose", "errRename"}
               THEN <<file, Written(payload)>>
          ELSE <<Written(payload), NoFile>>)

----------------------------------------------------------------------------
(* inputs: the exports the model draws from *)

StrC1 == <<"c","1">>
StrP1 == <<"p","1">>
StrMyChat == <<"M","y"," ","C","h","a","t">>
StrHello == <<"H","e","l","l","o">>
StrHiThere == <<"H","i"," ","t","h","e","r","e">>
StrSystem == <<"s","y","s","t","e","m">>
StrCode == <<"c","o","d","e">>
N1 == <<"n","1">>
N2 == <<"n","2">>
N3 == <<"n","3">>
NodeKeys == {N1, N2, N3}

StringPart(text) == [str |-> TRUE, text |-> text]
ObjectPart == [str |-> FALSE]

Msg(role, createTime, contentType, parts) ==
    Some([Author |-> [Role |-> role], CreateTime |-> createTime,
          Content |-> [ContentType |-> contentType, Parts |-> parts]])

UserHello == Msg(StrUser, Some(1000), StrText, <<StringPart(StrHello)>>)
AssistantHi == Msg(StrAssistant, Some(2000), StrText, <<StringPart(StrHiThere)>>)
UserHelloNoTime == Msg(StrUser, None, StrText, <<StringPart(StrHello)>>)
SystemNote == Msg(StrSystem, None, StrText, <<StringPart(StrHello)>>)
ToolCode == Msg(StrUser, None, StrCode, <<StringPart(StrHello)>>)
UserImageOnly == Msg(StrUser, Some(90000), StrMultimodal, <<ObjectPart>>)
UserText(text) == Msg(StrUser, None, StrText, <<StringPart(text)>>)
\* a user turn stamped with second 0 of the epoch, and roles in capitals
UserAtEpoch == Msg(StrUser, Some(0), StrText, <<StringPart(StrHello)>>)
AssistantShout == Msg(<<"A","S","S","I","S","T","A","N","T">>, Some(1000), StrText,
                      <<StringPart(StrHiThere)>>)
SystemShout == Msg(<<"S","y","s","t","e","m">>, Some(3000), StrText,
                   <<StringPart(StrHello)>>)
AssistantText(text) == Msg(StrAssistant, None, StrText, <<StringPart(text)>>)

Node(id, parent, message) == [ID |-> id, Parent |-> parent, Message |-> message]

Raw(conversationID, id, title, createTime, updateTime, currentNode, mapping) ==
    [ID |-> id, ConversationID |-> conversationID, Title |-> title,
     CreateTime |-> createTime, UpdateTime |-> updateTime,
     CurrentNode |-> currentNode, Mapping |-> mapping]

\* a user turn answered by an assistant turn, with message timestamps
TimedChat == [k \in {N1, N2} |->
                 IF k = N1 THEN Node(N1, <<>>, UserHello)
                 ELSE Node(N2, N1, AssistantHi)]

\* the same two turns, without message timestamps
UntimedChat == [k \in {N1, N2} |->
                   IF k = N1 THEN Node(N1, <<>>, UserHelloNoTime)
                   ELSE Node(N2, N1, AssistantText(StrHiThere))]

OneNode(message) == [k \in {N1} |-> Node(N1, <<>>, message)]

EmptyMapping == [k \in {} |-> Node(k, <<>>, None)]

\* identifiers, titles and conversation-level timestamps, over two mappings
MetaFamily ==
    { Raw(c, i, t, ct, ut, N2, m) :
        c \in {<<>>, StrC1}, i \in {<<>>, StrP1},
        t \in {<<>>, StrMyChat}, ct \in {None, Some(0), Some(1500)},
        ut \in {None, Some(1700)}, m \in {TimedChat, UntimedChat} }

\* every shape of a mapping over up to three nodes
NodeMessages ==
    {None, UserHello, AssistantHi, SystemNote, ToolCode,
     UserHelloNoTime, UserAtEpoch, AssistantShout, SystemShout}

MappingFamily ==
    { Raw(StrC1, <<>>, <<>>, None, None, cur,
          [k \in keys |-> Node(k, par[k], msg[k])]) :
        keys \in {{N1}, {N1, N2}},
        par \in [NodeKeys -> {<<>>, N1, N2}],
        msg \in [NodeKeys -> NodeMessages],
        cur \in {<<>>, N1, N2, N3} }

\* every parent structure over three nodes: chains, forks, cycles, self
\* parents and parents that are not in the mapping (n9)
N9 == <<"n","9">>

ChainMessage(k) ==
    IF k = N1 THEN UserHello ELSE IF k = N2 THEN AssistantHi ELSE UserHelloNoTime

ChainFamily ==
    { Raw(StrC1, <<>>, <<>>, None, None, cur,
          [k \in NodeKeys |-> Node(k, par[k], ChainMessage(k))]) :
        par \in [NodeKeys -> {<<>>, N1, N2, N3, N9}],
        cur \in {<<>>, N1, N2, N3, N9} }

\* texts around the summary limit
LongTexts ==
    { StrHello,
      Repeat("a", SummaryLimit),
      Repeat("a", SummaryLimit + 1),
      Repeat("a", LongLen),
      Repeat("a", SummaryLimit - 4) \o Repeat(" ", 8) \o Repeat("b", 4),
      Repeat("a", SummaryLimit - 3) \o Ellipsis \o Repeat("b", 4),
      Repeat(" ", 2) \o Repeat("a", LongLen) }

TextFamily ==
    { Raw(StrC1, <<>>, t, None, None, N2,
          [k \in {N1, N2} |->
              IF k = N1 THEN Node(N1, <<>>, first)
              ELSE Node(N2, N1, AssistantText(text))]) :
        t \in {<<>>, StrMyChat},
        first \in {None, UserText(Repeat(" ", 2)), UserImageOnly,
                   UserText(StrHello)},
        text \in LongTexts }
    \cup
    { Raw(StrC1, <<>>, <<>>, None, None, N1, OneNode(UserText(text))) :
        text \in LongTexts }

EmptyConversation == Raw(StrP1, StrP1, StrMyChat, None, None, <<>>, EmptyMapping)
TimedConversation == Raw(StrC1, <<>>, <<>>, None, None, N2, TimedChat)
AnonymousConversation == Raw(<<>>, <<>>, StrMyChat, None, None, N2, UntimedChat)
UntimedConversation == Raw(StrP1, <<>>, StrMyChat, None, None, N2, UntimedChat)

RawConversations == MetaFamily \cup MappingFamily \cup TextFamily \cup ChainFamily

JSON(payload) == [kind |-> "json", decoded |-> payload]
MissingFile == [kind |-> "missing", decoded |-> <<>>]
MalformedFile == [kind |-> "malformed", decoded |-> <<TimedConversation>>]

ConvertFiles ==
    { JSON(<<raw>>) : raw \in RawConversations }
    \cup { JSON(<<>>), MissingFile, MalformedFile,
           JSON(<<TimedConversation, EmptyConversation, AnonymousConversation>>),
           JSON(<<EmptyConversation>>),
           JSON(<<Raw(StrP1, <<>>, <<>>, None, None, <<>>, OneNode(None)),
                  EmptyConversation, TimedConversation>>) }

----------------------------------------------------------------------------
(* state *)

NoWrite == [op |-> "none"]
NoRun == [status |-> "none"]

MaxPatches == 2
PatchSlots == 1..MaxPatches
IdleRequest == [stage |-> "idle"]
NoPatches == [r \in PatchSlots |-> IdleRequest]

Idle ==
    /\ storeFile = NoFile
    /\ tmpFile = NoFile
    /\ pc = "idle"
    /\ conversations = NoConversations
    /\ items = <<>>
    /\ idx = 0
    /\ patches = NoPatches
    /\ last = NoWrite
    /\ prevRun = NoRun
    /\ thisRun = NoRun
    /\ served = 0
    /\ path = <<>>
    /\ seen = {}
    /\ nodeID = <<>>

Tick ==
    /\ clock < NowBase + MaxTicks
    /\ clock' = clock + 1
    /\ UNCHANGED <<path, seen, nodeID, exportFile, runs, storeFile, tmpFile, pc,
                   conversations, items, idx, patches, last, prevRun, thisRun,
                   served>>

----------------------------------------------------------------------------
(* the conversion on its own: LoadAndConvert called on one export *)

InitConvert ==
    /\ clock = NowBase
    /\ exportFile \in ConvertFiles
    /\ runs = <<>>
    /\ Idle

RunLoadAndConvert ==
    /\ Len(runs) < MaxRuns
    /\ runs' = Append(runs, [at |-> clock, res |-> LoadAndConvert(exportFile, clock)])
    /\ UNCHANGED <<path, seen, nodeID, clock, exportFile, storeFile, tmpFile, pc,
                   conversations, items, idx, patches, last, prevRun, thisRun,
                   served>>

NextConvert == RunLoadAndConvert \/ Tick

SpecConvert == InitConvert /\ [][NextConvert]_vars


\* the fields of a record that the conversion is to derive from the export alone
Derived(r) ==
    [ID |-> r.ID, Title |-> r.Title, Summary |-> r.Summary,
     DateStarted |-> r.DateStarted, DateEnded |-> r.DateEnded,
     Messages |-> r.Messages]

DerivedAll(records) == [n \in 1..Len(records) |-> Derived(records[n])]

\* the conversations of the export that have a non-empty mapping, in array order
WithMapping(payload) == SelectSeq(payload, LAMBDA raw : DOMAIN raw.Mapping # {})

\* every node carries no message, or a message that is neither text nor multimodal_text
Textless(raw) ==
    /\ DOMAIN raw.Mapping # {}
    /\ \A k \in DOMAIN raw.Mapping :
          \/ raw.Mapping[k].Message = None
          \/ raw.Mapping[k].Message[1].Content.ContentType \notin {StrText, StrMultimodal}

\* the first non-empty user text of the timeline, else the first assistant text
SourceText(raw) ==
    LET acc == foldTimeline(traversalPath(raw), foldInit)
    IN  firstNonEmpty(acc.firstUser, acc.firstAssistant)

\* C3: two runs of LoadAndConvert on the same export, at any two points in
\* time, return records with the same identifiers, titles, summaries,
\* start/end dates and message lists.
C3_Deterministic ==
    \A i, j \in 1..Len(runs) :
        DerivedAll(runs[i].res.conversations) = DerivedAll(runs[j].res.conversations)

\* C8: a conversation with a non-empty mapping that holds only nodes without
\* a message, or only messages of a content type other than text and
\* multimodal_text, has no entry in the list LoadAndConvert returns.
C8_TextlessExcluded ==
    \A i \in 1..Len(runs) :
        ~runs[i].res.err =>
            Len(runs[i].res.conversations)
                <= Len(SelectSeq(exportFile.decoded, LAMBDA raw : ~Textless(raw)))

\* C9: every summary is at most 240 characters long; when the source text is
\* longer, the summary is exactly 240 characters, ends with "..." and starts
\* with the first 237 characters of the source text.
C9_SummaryWithinLimit ==
    \A i \in 1..Len(runs) :
        \A n \in 1..Len(runs[i].res.conversations) :
            LET r   == runs[i].res.conversations[n]
                src == SourceText(WithMapping(exportFile.decoded)[n])
            IN  /\ Len(r.Summary) <= SummaryLimit
                /\ Len(src) > SummaryLimit =>
                      /\ Len(r.Summary) = SummaryLimit
                      /\ HasSuffix(r.Summary, Ellipsis)
                      /\ SubSeq(r.Summary, 1, SummaryLimit - 3)
                            = SubSeq(src, 1, SummaryLimit - 3)


----------------------------------------------------------------------------
(* the importer command: LoadAndConvert, storage.New, then Get and Upsert of
   every record *)

ImportFiles ==
    { JSON(<<TimedConversation, EmptyConversation, AnonymousConversation>>),
      JSON(<<UntimedConversation>>),
      MalformedFile,
      MissingFile }

\* one Store write: the sorted payload goes through saveLocked
Saved(r) ==
    /\ storeFile' = r.storeFile
    /\ tmpFile' = r.tmpFile

WriteStore(newConvs, outcome) ==
    \E payload \in Sorted(Range(newConvs)) :
       Saved(saveLocked(payload, storeFile, tmpFile, outcome))

\* main, up to the check of LoadAndConvert's error
Loaded(r) ==
    /\ thisRun' = [status |-> IF r.err THEN "parseError" ELSE "running",
                   upserts |-> 0]
    /\ pc' = IF r.err THEN "idle" ELSE "open"
    /\ items' = r.conversations

ImporterLoad(file) ==
    /\ pc = "idle"
    /\ exportFile' = file
    /\ Loaded(LoadAndConvert(file, clock))
    /\ UNCHANGED <<path, seen, nodeID, clock, runs, storeFile, tmpFile, conversations, idx,
                   patches, last, prevRun, served>>

\* storage.New in main
Opened(r) ==
    IF r.err
    THEN /\ pc' = "idle"
         /\ thisRun' = [thisRun EXCEPT !.status = "storeError"]
         /\ items' = <<>>
         /\ UNCHANGED <<conversations, idx>>
    ELSE /\ pc' = "upsert"
         /\ conversations' = r.conversations
         /\ idx' = 1
         /\ UNCHANGED <<thisRun, items>>

ImporterOpenStore ==
    /\ pc = "open"
    /\ Opened(load(storeFile))
    /\ UNCHANGED <<path, seen, nodeID, clock, exportFile, runs, storeFile, tmpFile, patches, last,
                   prevRun, served>>

\* one iteration of the loop of main: Get, then Upsert; an error is fatal
ImporterUpsert(outcome) ==
    /\ pc = "upsert"
    /\ idx <= Len(items)
    /\ WriteStore(Upsert(conversations, items[idx], clock), outcome)
    /\ IF outcome = "ok"
       THEN /\ conversations' = Upsert(conversations, items[idx], clock)
            /\ idx' = idx + 1
            /\ thisRun' = [thisRun EXCEPT !.upserts = @ + 1]
            /\ UNCHANGED <<pc, items, prevRun>>
       ELSE /\ conversations' = NoConversations
            /\ idx' = 0
            /\ items' = <<>>
            /\ pc' = "idle"
            /\ prevRun' = NoRun
            /\ thisRun' = [thisRun EXCEPT !.upserts = @ + 1,
                              !.status = IF outcome \in SaveErrors
                                         THEN "upsertError" ELSE "crashed"]
    /\ UNCHANGED <<path, seen, nodeID, clock, exportFile, runs, patches, last, served>>

\* the end of main; prevRun remembers the run that has just been completed
ImporterExit ==
    /\ pc = "upsert"
    /\ idx > Len(items)
    /\ pc' = "idle"
    /\ thisRun' = [thisRun EXCEPT !.status = "done"]
    /\ prevRun' = [status |-> "done", file |-> exportFile,
                   ids |-> DOMAIN conversations,
                   created |-> [id \in DOMAIN conversations |->
                                   conversations[id].CreatedAt]]
    /\ conversations' = NoConversations
    /\ items' = <<>>
    /\ idx' = 0
    /\ UNCHANGED <<path, seen, nodeID, clock, exportFile, runs, storeFile, tmpFile, patches, last,
                   served>>

InitImport ==
    /\ clock = NowBase
    /\ exportFile = MissingFile
    /\ runs = <<>>
    /\ Idle

NextImport ==
    \/ \E file \in ImportFiles : ImporterLoad(file)
    \/ ImporterOpenStore
    \/ \E outcome \in SaveOutcomes : ImporterUpsert(outcome)
    \/ ImporterExit
    \/ Tick

SpecImport == InitImport /\ [][NextImport]_vars

\* the importer has upserted every record of the export it was given, and
\* the run it completed just before was given the same export
ImportedTwice ==
    /\ pc = "upsert"
    /\ idx > Len(items)
    /\ prevRun.status = "done"
    /\ prevRun.file = exportFile

\* C1: after a second import of the same export into the same store, the
\* store holds exactly the identifiers it held after the first import.
C1_SameIdentifiers ==
    ImportedTwice => DOMAIN conversations = prevRun.ids

\* C2: after a second import of the same export, every record has the
\* creation instant it had after the first import.
C2_CreationPreserved ==
    ImportedTwice =>
        \A id \in prevRun.ids \cap DOMAIN conversations :
            conversations[id].CreatedAt = prevRun.created[id]

\* C10: when the export cannot be read or decoded, the importer ends at once
\* with a parse error: it opens no store, performs no Upsert and leaves the
\* store file and the temporary file as they were; a decodable export is
\* never a parse error, and a conversation with an empty mapping is only
\* left out of the records.
C10_ParseErrorWritesNothing ==
    [][ (pc = "idle" /\ pc' # "serving" /\ thisRun' # thisRun) =>
          IF exportFile'.kind # "json"
          THEN /\ thisRun'.status = "parseError"
               /\ thisRun'.upserts = 0
               /\ pc' = "idle"
               /\ items' = <<>>
               /\ conversations' = NoConversations
               /\ storeFile' = storeFile
               /\ tmpFile' = tmpFile
          ELSE /\ thisRun'.status = "running"
               /\ pc' = "open"
               /\ Len(items') = Len(WithMapping(exportFile'.decoded)) ]_vars

\* a parse error met when the store already holds records
C10_Witness ==
    /\ thisRun.status = "parseError"
    /\ thisRun.upserts = 0
    /\ storeFile.exists
    /\ Len(storeFile.payload) > 0


----------------------------------------------------------------------------
(* the API server: one Store shared by the handlers of concurrent requests *)

StrX1 == <<"x","1">>
StrX2 == <<"x","2">>
StrRenamed == <<"R","e","n","a","m","e","d">>

\* what newID can return (16 random bytes: a collision is possible)
ApiIDs == {StrX1, StrX2}

\* slot 1 carries a PATCH of the title only, slot 2 one of the summary only
PatchPayload(r) ==
    IF r = 1 THEN [Title |-> Some(StrRenamed), Summary |-> None]
    ELSE [Title |-> None, Summary |-> Some(StrHiThere)]

\* lines 174-200 of patchConversation: the fetched record with the fields of
\* the payload, stamped with the current time
Patched(convo, payload, now) ==
    [convo EXCEPT
        !.Title = IF payload.Title # None THEN TrimSpace(payload.Title[1]) ELSE @,
        !.Summary = IF payload.Summary # None
                    THEN TrimSpace(payload.Summary[1]) ELSE @,
        !.UpdatedAt = now]

\* requests in flight whose record another request writes are marked
Disturb(reqs, ids) ==
    [r \in PatchSlots |->
        IF reqs[r].stage # "idle" /\ reqs[r].id \in ids
        THEN [reqs[r] EXCEPT !.disturbed = TRUE] ELSE reqs[r]]

\* a write of the serving process: the file, the memory and the bookkeeping;
\* a crash ends the process and with it the requests in flight
ServerWrite(op, arg, newConvs, newPatches, outcome) ==
    /\ WriteStore(newConvs, outcome)
    /\ last' = [op |-> op, arg |-> arg, before |-> conversations,
                after |-> newConvs, now |-> clock, outcome |-> outcome]
    /\ IF outcome \in SaveCrashes
       THEN /\ pc' = "idle"
            /\ conversations' = NoConversations
            /\ patches' = NoPatches
       ELSE /\ pc' = pc
            /\ conversations' = newConvs
            /\ patches' = newPatches
    /\ UNCHANGED <<path, seen, nodeID, clock, exportFile, runs, items, idx, prevRun, thisRun>>

\* a handler's call of Store.Upsert
UpsertRequest(convo, newPatches, outcome) ==
    ServerWrite("Upsert", convo, Upsert(conversations, convo, clock),
                newPatches, outcome)

\* the record createConversation builds from a valid payload
Created(id) ==
    [ID |-> id, Title |-> StrMyChat, Summary |-> StrHello,
     DateStarted |-> <<>>, DateEnded |-> <<>>,
     SourceID |-> <<>>, Messages |-> <<>>,
     CreatedAt |-> ZeroTime, UpdatedAt |-> ZeroTime]

Started(r) ==
    /\ ~r.err
    /\ conversations' = r.conversations

\* storage.New in the server's main
ServerStart ==
    /\ pc = "idle"
    /\ Started(load(storeFile))
    /\ pc' = "serving"
    /\ patches' = NoPatches
    /\ last' = NoWrite
    /\ UNCHANGED <<path, seen, nodeID, clock, exportFile, runs, storeFile, tmpFile, items, idx,
                   prevRun, thisRun, served>>

\* POST /api/conversations
createConversation(id, outcome) ==
    /\ pc = "serving"
    /\ served < MaxRequests
    /\ served' = served + 1
    /\ UpsertRequest(Created(id), Disturb(patches, {id}), outcome)

\* PATCH /api/conversations/{id}, up to the return of Store.Get
PatchGet(r, id) ==
    /\ pc = "serving"
    /\ patches[r].stage \in {"idle", "done"}
    /\ ~Get(conversations, id).notFound
    /\ served < MaxRequests
    /\ served' = served + 1
    /\ patches' = [patches EXCEPT ![r] =
                      [stage |-> "got", id |-> id,
                       convo |-> Get(conversations, id).item,
                       disturbed |-> FALSE, failed |-> FALSE]]
    /\ UNCHANGED <<path, seen, nodeID, clock, exportFile, runs, storeFile, tmpFile, pc,
                   conversations, items, idx, last, prevRun, thisRun>>

\* PATCH /api/conversations/{id}, from the return of Store.Get on
PatchUpsert(r, outcome) ==
    /\ pc = "serving"
    /\ patches[r].stage = "got"
    /\ served' = served
    /\ UpsertRequest(Patched(patches[r].convo, PatchPayload(r), clock),
                     [patches EXCEPT ![r].stage = "done",
                                     ![r].failed = outcome # "ok"],
                     outcome)

\* Store.UpdateTitle on a present id
UpdateTitle(id, outcome) ==
    /\ pc = "serving"
    /\ id \in DOMAIN conversations
    /\ served < MaxRequests
    /\ served' = served + 1
    /\ ServerWrite("UpdateTitle", id,
                   UpdateTitleIn(conversations, id, StrHiThere, clock),
                   Disturb(patches, {id}), outcome)

\* DELETE /api/conversations/{id} on a present id
deleteConversation(id, outcome) ==
    /\ pc = "serving"
    /\ id \in DOMAIN conversations
    /\ served < MaxRequests
    /\ served' = served + 1
    /\ ServerWrite("Delete", id, Remove(conversations, id),
                   Disturb(patches, {id}), outcome)

\* DELETE /api/conversations
deleteAll(outcome) ==
    /\ pc = "serving"
    /\ served < MaxRequests
    /\ served' = served + 1
    /\ ServerWrite("DeleteAll", <<>>, NoConversations,
                   Disturb(patches, ApiIDs), outcome)

InitStore ==
    /\ clock = NowBase
    /\ exportFile = MissingFile
    /\ runs = <<>>
    /\ Idle

\* the handlers one after another, every outcome of a save included; the
\* PATCH handler runs in slot 1, so other requests come between its Get and
\* its Upsert
NextStore ==
    \/ ServerStart
    \/ \E id \in ApiIDs, outcome \in SaveOutcomes : createConversation(id, outcome)
    \/ \E id \in ApiIDs : PatchGet(1, id)
    \/ \E outcome \in SaveOutcomes : PatchUpsert(1, outcome)
    \/ \E id \in ApiIDs, outcome \in SaveOutcomes : UpdateTitle(id, outcome)
    \/ \E id \in ApiIDs, outcome \in SaveOutcomes : deleteConversation(id, outcome)
    \/ \E outcome \in SaveOutcomes : deleteAll(outcome)
    \/ Tick

SpecStore == InitStore /\ [][NextStore]_vars

\* concurrent PATCH and DELETE requests on a disk that does not fail
NextPatch ==
    \/ ServerStart
    \/ \E id \in ApiIDs : createConversation(id, "ok")
    \/ \E r \in PatchSlots, id \in ApiIDs : PatchGet(r, id)
    \/ \E r \in PatchSlots : PatchUpsert(r, "ok")
    \/ \E id \in ApiIDs : deleteConversation(id, "ok")
    \/ Tick

SpecPatch == InitStore /\ [][NextPatch]_vars

\* the last write was a Store.Upsert that returned to its caller
UpsertReturned == last.op = "Upsert" /\ last.outcome \notin SaveCrashes

\* C4: after an Upsert, the stored creation instant is the incoming one when
\* that is set; otherwise it is the existing record's when a record with the
\* identifier existed, and the current time when none did; the stored update
\* instant is the incoming one when that is set and the current time otherwise.
C4_MergeRule ==
    UpsertReturned =>
        LET incoming == last.arg
            existed  == incoming.ID \in DOMAIN last.before
            stored   == conversations[incoming.ID]
        IN  /\ incoming.ID \in DOMAIN conversations
            /\ stored.CreatedAt =
                  IF incoming.CreatedAt # ZeroTime THEN incoming.CreatedAt
                  ELSE IF existed THEN last.before[incoming.ID].CreatedAt
                  ELSE last.now
            /\ stored.UpdatedAt =
                  IF incoming.UpdatedAt # ZeroTime THEN incoming.UpdatedAt
                  ELSE last.now

\* an Upsert without creation instant onto a record created earlier
C4_Witness ==
    /\ UpsertReturned
    /\ last.arg.CreatedAt = ZeroTime
    /\ last.arg.ID \in DOMAIN last.before
    /\ last.before[last.arg.ID].CreatedAt < last.now
    /\ conversations[last.arg.ID].CreatedAt < last.now

\* C5: when a PATCH of the title and a PATCH of the summary of the same
\* record have both returned successfully, and no other request wrote the
\* record meanwhile, the record carries the new title and the new summary,
\* as it does after the two updates in either serial order.
C5_NoLostUpdate ==
    ( /\ patches[1].stage = "done" /\ patches[2].stage = "done"
      /\ patches[1].id = patches[2].id
      /\ ~patches[1].disturbed /\ ~patches[2].disturbed
      /\ ~patches[1].failed /\ ~patches[2].failed )
    => LET id == patches[1].id
       IN  /\ id \in DOMAIN conversations
           /\ conversations[id].Title = StrRenamed
           /\ conversations[id].Summary = StrHiThere

\* C6: whatever the step at which a save fails or the process dies, the file
\* at the store path is absent or complete, so that load succeeds on it, and
\* a step that changes it leaves in it exactly the records being written.
C6_StoreFileNeverCorrupt ==
    /\ [](~storeFile.exists \/ storeFile.complete)
    /\ [](~load(storeFile).err)
    /\ [][storeFile' # storeFile =>
            /\ storeFile'.exists /\ storeFile'.complete
            /\ load(storeFile').conversations = last'.after]_vars

\* the process died in the middle of a write over an existing store file
C6_Witness ==
    /\ last.op # "none"
    /\ last.outcome \in {"crashOpen", "crashEncode"}
    /\ pc = "idle"
    /\ tmpFile = Truncated
    /\ storeFile.exists
    /\ load(storeFile).conversations = last.before
    /\ last.after # last.before

\* C7: after an Upsert has returned an error, Get of the record's identifier
\* and List return what they returned before the call.
C7_FailedUpsertLeavesNoTrace ==
    (last.op = "Upsert" /\ last.outcome \in SaveErrors) =>
        /\ Get(conversations, last.arg.ID) = Get(last.before, last.arg.ID)
        /\ List(conversations) = List(last.before)

----------------------------------------------------------------------------
(* Store calls on identifiers that may be absent *)

\* Store.Delete as a function: the result is [notFound, conversations]
Delete(convs, id) ==
    IF id \notin DOMAIN convs THEN [notFound |-> TRUE, conversations |-> convs]
    ELSE [notFound |-> FALSE, conversations |-> Remove(convs, id)]

\* a Store call that returns after its look-up and writes the file anyway
ReturnedAfterSave(op, id, outcome) ==
    /\ WriteStore(conversations, "ok")
    /\ last' = [op |-> op, arg |-> id, before |-> conversations,
                after |-> conversations, now |-> clock, outcome |-> outcome,
                n |-> served + 1]
    /\ UNCHANGED <<clock, exportFile, runs, pc, conversations,
                   items, idx, patches, prevRun, thisRun, path, seen, nodeID>>

\* a Store call that returns after its look-up: Get, and the ErrNotFound
\* return of Delete and UpdateTitle, which comes before any assignment
Returned(op, id, outcome) ==
    /\ last' = [op |-> op, arg |-> id, before |-> conversations,
                after |-> conversations, now |-> clock, outcome |-> outcome,
                n |-> served + 1]
    /\ UNCHANGED <<clock, exportFile, runs, storeFile, tmpFile, pc, conversations,
                   items, idx, patches, prevRun, thisRun, path, seen, nodeID>>

\* GET /api/conversations/{id}
getConversation(id) ==
    /\ pc = "serving"
    /\ served < MaxRequests
    /\ served' = served + 1
    /\ Returned("Get", id,
                IF Get(conversations, id).notFound THEN "notFound" ELSE "ok")

\* DELETE /api/conversations/{id} on an absent id
deleteNotFound(id) ==
    /\ pc = "serving"
    /\ Delete(conversations, id).notFound
    /\ served < MaxRequests
    /\ served' = served + 1
    /\ Returned("Delete", id, "notFound")

\* Store.UpdateTitle on an absent id
UpdateTitleNotFound(id) ==
    /\ pc = "serving"
    /\ id \notin DOMAIN conversations
    /\ served < MaxRequests
    /\ served' = served + 1
    /\ Returned("UpdateTitle", id, "notFound")

\* look-ups, renames and deletions of present and absent identifiers
NextLookup ==
    \/ ServerStart
    \/ \E id \in ApiIDs : createConversation(id, "ok")
    \/ \E id \in ApiIDs : getConversation(id)
    \/ \E id \in ApiIDs : UpdateTitle(id, "ok")
    \/ \E id \in ApiIDs : UpdateTitleNotFound(id)
    \/ \E id \in ApiIDs, outcome \in SaveOutcomes : deleteConversation(id, outcome)
    \/ \E id \in ApiIDs : deleteNotFound(id)
    \/ Tick

SpecLookup == InitStore /\ [][NextLookup]_vars

\* C11: Get, Delete and UpdateTitle of an identifier that is not in the store
\* return ErrNotFound and leave the records in memory, the store file and the
\* temporary file as they were; on a present identifier they do not return
\* ErrNotFound, and Delete removes that record and no other.
C11_NotFoundChangesNothing ==
    [][ (last' # last /\ last'.op \in {"Get", "Delete", "UpdateTitle"}) =>
          IF last'.arg \notin DOMAIN conversations
          THEN /\ last'.outcome = "notFound"
               /\ conversations' = conversations
               /\ storeFile' = storeFile
               /\ tmpFile' = tmpFile
          ELSE /\ last'.outcome # "notFound"
               /\ (last'.op = "Delete" /\ last'.outcome \notin SaveCrashes) =>
                     /\ DOMAIN conversations' = DOMAIN conversations \ {last'.arg}
                     /\ \A k \in DOMAIN conversations' :
                           conversations'[k] = conversations[k] ]_vars

\* a Delete of an absent identifier on a store that holds another record
C11_Witness ==
    /\ last.op = "Delete"
    /\ last.outcome = "notFound"
    /\ conversations # NoConversations
    /\ last.arg \notin DOMAIN conversations
    /\ storeFile.exists

----------------------------------------------------------------------------
(* the records LoadAndConvert returns, against the export *)

\* C12: LoadAndConvert leaves out the conversations with an empty mapping and
\* returns the records of all others, in the order of the input array.
C12_EmptyMappingsDropped ==
    \A i \in 1..Len(runs) :
        ~runs[i].res.err =>
            /\ Len(runs[i].res.conversations)
                  = Len(exportFile.decoded)
                    - Cardinality({n \in 1..Len(exportFile.decoded) :
                                     DOMAIN exportFile.decoded[n].Mapping = {}})
            /\ runs[i].res.conversations
                  = [n \in 1..Len(WithMapping(exportFile.decoded)) |->
                       convertConversation(WithMapping(exportFile.decoded)[n],
                                           runs[i].at)[1]]

\* three conversations, the second with an empty mapping: two records, in order
C12_Witness ==
    /\ Len(runs) > 0
    /\ exportFile = JSON(<<TimedConversation, EmptyConversation, AnonymousConversation>>)
    /\ Len(runs[1].res.conversations) = 2
    /\ runs[1].res.conversations[1].ID = StrC1
    /\ runs[1].res.conversations[2].Title = StrMyChat

----------------------------------------------------------------------------
(* traversalPath step by step, on the first conversation of the export *)

InitWalk ==
    /\ clock = NowBase
    /\ exportFile \in { JSON(<<raw>>) : raw \in ChainFamily \cup MappingFamily }
    /\ runs = <<>>
    /\ Idle

\* lines 418-424: the early return, else the initial values of the loop
TraversalEnter ==
    /\ pc = "idle"
    /\ IF exportFile.decoded[1].CurrentNode = <<>>
       THEN /\ pc' = "returned"
            /\ path' = timelineByTimestamps(exportFile.decoded[1])
            /\ UNCHANGED <<seen, nodeID>>
       ELSE /\ pc' = "loop"
            /\ path' = <<>>
            /\ seen' = {}
            /\ nodeID' = exportFile.decoded[1].CurrentNode
    /\ UNCHANGED <<clock, exportFile, runs, storeFile, tmpFile, conversations,
                   items, idx, patches, last, prevRun, thisRun, served>>

\* an iteration that appends the node and goes on to its parent whether or
\* not the node has been visited
TraversalLoopUnmarked ==
    /\ pc = "loop"
    /\ nodeID # <<>>
    /\ nodeID \in DOMAIN exportFile.decoded[1].Mapping
    /\ path' = Append(path, exportFile.decoded[1].Mapping[nodeID])
    /\ nodeID' = exportFile.decoded[1].Mapping[nodeID].Parent
    /\ UNCHANGED <<clock, exportFile, runs, storeFile, tmpFile, pc, conversations,
                   items, idx, patches, last, prevRun, thisRun, served, seen>>

\* lines 426-437: one iteration that finds the node in the mapping
TraversalLoop ==
    /\ pc = "loop"
    /\ nodeID # <<>>
    /\ nodeID \in DOMAIN exportFile.decoded[1].Mapping
    /\ path' = Append(path, exportFile.decoded[1].Mapping[nodeID])
    /\ IF nodeID \in seen
       THEN /\ pc' = "reverse"
            /\ UNCHANGED <<seen, nodeID>>
       ELSE /\ pc' = "loop"
            /\ seen' = seen \cup {nodeID}
            /\ nodeID' = exportFile.decoded[1].Mapping[nodeID].Parent
    /\ UNCHANGED <<clock, exportFile, runs, storeFile, tmpFile, conversations,
                   items, idx, patches, last, prevRun, thisRun, served>>

\* lines 426-430: the loop ends on an empty id or an id that is not in the mapping
TraversalLoopEnd ==
    /\ pc = "loop"
    /\ nodeID = <<>> \/ nodeID \notin DOMAIN exportFile.decoded[1].Mapping
    /\ pc' = "reverse"
    /\ UNCHANGED <<clock, exportFile, runs, storeFile, tmpFile, conversations,
                   items, idx, patches, last, prevRun, thisRun, served,
                   path, seen, nodeID>>

\* the return of the path in the order in which the loop collected it
TraversalReturnUnreversed ==
    /\ pc = "reverse"
    /\ pc' = "returned"
    /\ path' = pathOrTimeline(exportFile.decoded[1], path)
    /\ UNCHANGED <<clock, exportFile, runs, storeFile, tmpFile, conversations,
                   items, idx, patches, last, prevRun, thisRun, served,
                   seen, nodeID>>

\* lines 439-448: the reversal, the fallback on an empty path, the return
TraversalReturn ==
    /\ pc = "reverse"
    /\ pc' = "returned"
    /\ path' = pathOrTimeline(exportFile.decoded[1], Reverse(path))
    /\ UNCHANGED <<clock, exportFile, runs, storeFile, tmpFile, conversations,
                   items, idx, patches, last, prevRun, thisRun, served,
                   seen, nodeID>>

NextWalk ==
    \/ TraversalEnter
    \/ TraversalLoop
    \/ TraversalLoopEnd
    \/ TraversalReturn

\* a call that has begun keeps running until it returns
SpecWalk == InitWalk /\ [][NextWalk]_vars /\ WF_vars(NextWalk)

\* the step-by-step traversal returns what the function traversalPath returns
TraversalAgrees ==
    pc = "returned" => path = traversalPath(exportFile.decoded[1])

\* the node reached from k by following parent links n times, or the first
\* id on the way that is not in the mapping
RECURSIVE Ancestor(_, _, _)
Ancestor(mapping, k, n) ==
    IF n = 0 \/ k \notin DOMAIN mapping THEN k
    ELSE Ancestor(mapping, mapping[k].Parent, n - 1)

\* the current-leaf pointer names a node, and the parent links from it leave
\* the mapping (on an empty or unknown parent id) before any node repeats
FiniteChain(raw) ==
    /\ raw.CurrentNode \in DOMAIN raw.Mapping
    /\ Ancestor(raw.Mapping, raw.CurrentNode, Cardinality(DOMAIN raw.Mapping))
          \notin DOMAIN raw.Mapping

NoRepeatedID(s) == \A i, j \in 1..Len(s) : i # j => s[i].ID # s[j].ID

\* C13: when the current-leaf pointer names a node and its parent chain is
\* finite, traversalPath returns that chain from the root to the leaf: the
\* last element is the current-leaf node, the parent of every element is the
\* element before it, and the first element has no parent in the mapping.
C13_RootToLeaf ==
    (pc = "returned" /\ FiniteChain(exportFile.decoded[1])) =>
        /\ Len(path) >= 1
        /\ path[Len(path)]
              = exportFile.decoded[1].Mapping[exportFile.decoded[1].CurrentNode]
        /\ \A i \in 2..Len(path) :
              /\ path[i].Parent \in DOMAIN exportFile.decoded[1].Mapping
              /\ path[i - 1] = exportFile.decoded[1].Mapping[path[i].Parent]
        /\ path[1].Parent \notin DOMAIN exportFile.decoded[1].Mapping
        /\ NoRepeatedID(path)

\* a chain of three nodes has been returned
C13_Witness ==
    /\ pc = "returned"
    /\ FiniteChain(exportFile.decoded[1])
    /\ Len(path) = 3
    /\ path[1].ID # path[3].ID

\* C14: the parent walk of traversalPath makes at most one iteration more
\* than the mapping has nodes, and every call returns, also when the parent
\* chain is cyclic.
C14_WalkTerminates ==
    /\ [](Len(path) <= Cardinality(DOMAIN exportFile.decoded[1].Mapping) + 1)
    /\ <>(pc = "returned")

\* a call on a cyclic parent chain has returned
C14_Witness ==
    /\ pc = "returned"
    /\ exportFile.decoded[1].CurrentNode \in DOMAIN exportFile.decoded[1].Mapping
    /\ ~FiniteChain(exportFile.decoded[1])
    /\ Cardinality(seen) >= 2

\* C15: the path traversalPath returns holds no node id twice and is no
\* longer than the mapping has nodes, so that the message list built from it
\* holds no message twice.
C15_NoRepeatedNode ==
    pc = "returned" =>
        /\ NoRepeatedID(path)
        /\ Len(path) <= Cardinality(DOMAIN exportFile.decoded[1].Mapping)
        /\ NoRepeatedID(foldTimeline(path, foldInit).messages)

\* the node carries a message with a timestamp that toTime accepts
Timestamped(node) == toTime(GetCreateTime(node.Message)).ok

Timestamp(node) == toTime(GetCreateTime(node.Message)).t

\* the order of two nodes: a node without timestamp before a node with one,
\* timestamps ascending, equal or absent timestamps by ascending node id
UntimedFirst(a, b) ==
    IF Timestamped(a) /\ Timestamped(b)
    THEN \/ Timestamp(a) < Timestamp(b)
         \/ Timestamp(a) = Timestamp(b) /\ StrLess(a.ID, b.ID)
    ELSE IF Timestamped(b) THEN TRUE
    ELSE IF Timestamped(a) THEN FALSE
    ELSE StrLess(a.ID, b.ID)

\* C16: when the current-leaf pointer is empty or names no node of the
\* mapping, the timeline is all nodes of the mapping, each once, the nodes
\* without timestamp first, then the others by ascending timestamp, equal or
\* absent timestamps by ascending node id.
C16_UntimedNodesFirst ==
    (pc = "returned"
       /\ exportFile.decoded[1].CurrentNode \notin DOMAIN exportFile.decoded[1].Mapping) =>
        /\ Len(path) = Cardinality(DOMAIN exportFile.decoded[1].Mapping)
        /\ {path[i] : i \in 1..Len(path)}
              = Range(exportFile.decoded[1].Mapping)
        /\ \A i, j \in 1..Len(path) : i < j => UntimedFirst(path[i], path[j])

----------------------------------------------------------------------------
(* the message list of a record, against the timeline *)

\* the node carries a message of a user or an assistant, in any case of the
\* letters, with text
AuthoredTurn(node) ==
    /\ node.Message # None
    /\ ToLower(node.Message[1].Author.Role) \in {StrUser, StrAssistant}
    /\ extractText(node.Message[1].Content) # <<>>

TurnOf(node) ==
    [ID |-> node.ID,
     Author |-> ToLower(node.Message[1].Author.Role),
     Content |-> extractText(node.Message[1].Content),
     CreatedAt |-> timestampOrZero(node.Message[1].CreateTime)]

TurnsOf(timeline) == [i \in 1..Len(timeline) |-> TurnOf(timeline[i])]

\* the records of a run next to the conversations they were made from
RecordPairs(run) ==
    { <<run.res.conversations[n], WithMapping(exportFile.decoded)[n]>> :
        n \in 1..Len(run.res.conversations) }

AllRecordPairs == UNION { RecordPairs(runs[i]) : i \in 1..Len(runs) }

\* C17: the message list of a record is the timeline nodes that carry a
\* message of role user or assistant (in any case of the letters) with
\* non-empty text, in timeline order; every stored message has the role
\* "user" or "assistant" in lower case and a non-empty text.
C17_OnlyAuthoredTurns ==
    \A pair \in AllRecordPairs :
        /\ pair[1].Messages
              = TurnsOf(SelectSeq(traversalPath(pair[2]), AuthoredTurn))
        /\ \A m \in 1..Len(pair[1].Messages) :
              /\ pair[1].Messages[m].Author \in {StrUser, StrAssistant}
              /\ pair[1].Messages[m].Content # <<>>

\* a record made from a system turn and an assistant turn written in capitals
C17_Witness ==
    \E pair \in AllRecordPairs :
        /\ SystemShout \in {pair[2].Mapping[k].Message : k \in DOMAIN pair[2].Mapping}
        /\ AssistantShout \in {pair[2].Mapping[k].Message : k \in DOMAIN pair[2].Mapping}
        /\ Len(pair[1].Messages) = 1
        /\ pair[1].Messages[1].Author = StrAssistant

----------------------------------------------------------------------------
(* timestamps of second 0 of the epoch *)

\* a timestamp, with second 0 of the epoch taken for a missing one
DropEpochZero(value) == IF value = Some(0) THEN None ELSE value

NodeWithoutEpochZero(node) ==
    IF node.Message = None THEN node
    ELSE [node EXCEPT !.Message[1].CreateTime = DropEpochZero(@)]

\* the conversation with every timestamp of second 0 removed
WithoutEpochZero(raw) ==
    [raw EXCEPT !.CreateTime = DropEpochZero(@),
                !.UpdateTime = DropEpochZero(@),
                !.Mapping = [k \in DOMAIN @ |-> NodeWithoutEpochZero(@[k])]]

\* C18: a timestamp of 0 seconds since the epoch counts as absent: the record
\* of a conversation is the record of the same conversation with every such
\* timestamp removed, in its dates, its instants and its messages' instants.
C18_EpochZeroIsAbsent ==
    \A i \in 1..Len(runs) :
        \A pair \in RecordPairs(runs[i]) :
            Some(pair[1]) = convertConversation(WithoutEpochZero(pair[2]), runs[i].at)

----------------------------------------------------------------------------
(* updates in flight and deletions *)

\* C19: a PATCH whose Store.Get came before a Delete of the record returned,
\* and whose Store.Upsert comes after it, does not bring the record back:
\* the identifier is still absent after the Upsert.
C19_DeletedStaysDeleted ==
    [][ \A r \in PatchSlots :
          ( /\ patches[r].stage = "got"
            /\ patches'[r].stage = "done"
            /\ patches[r].id \notin DOMAIN conversations )
          => patches[r].id \notin DOMAIN conversations' ]_vars

----------------------------------------------------------------------------
(* the instants and dates of a record *)

\* C20: in every record the creation instant is not after the update
\* instant, and a start date is not after the end date when both are there.
C20_ChronologicallyConsistent ==
    \A pair \in AllRecordPairs :
        /\ pair[1].CreatedAt <= pair[1].UpdatedAt
        /\ (pair[1].DateStarted # <<>> /\ pair[1].DateEnded # <<>>) =>
              ~StrLess(pair[1].DateEnded, pair[1].DateStarted)

====
